---- MODULE Spec2Model ----
(***************************************************************************)
(* Model of s32tar's S3TarArchiver (src/src/s32tar/archive.py): the object *)
(* lister, the single-archive path (stream_to_tar, archive_to_file) and    *)
(* the chunked path (archive_to_files_chunked), one call per behaviour.    *)
(* Strings are sequences of one-character strings; a file name is the      *)
(* sequence of pieces str.format renders.  The store, the file system and  *)
(* the tar writers are the environment: every call into them may fail.     *)
(***************************************************************************)
EXTENDS Integers, Sequences, FiniteSets, TLC

\* ---------------------------------------------------------------- bounds
\* objects in the bucket, bytes per object, bytes of budget, keys per page
MaxObjs == 3
MaxSize == 1
MaxBudget == 2
PageSize == 2

\* ------------------------------------------------------- input universes
\* keys the bucket may hold, in the order the store lists them
KeyOrder == << <<"a">>, <<"a", "/">>, <<"a", "/", "b">>, <<"a", "/", "c">> >>
Prefixes == { <<"a">>, <<"a", "/">> }
Patterns == { <<"out_", "{}", ".tar">> }
\* "None" stands for Python's None, "" for the empty string
Compressions == { "None", "", "gz", "xz", "invalid" }
NoName == << "?" >>

\* -------------------------------------------------------- pure functions
StartsWith(key, prefix) ==
    /\ Len(prefix) <= Len(key)
    /\ SubSeq(key, 1, Len(prefix)) = prefix

EndsWithSlash(key) == Len(key) > 0 /\ key[Len(key)] = "/"

RECURSIVE LStrip(_)
LStrip(s) == IF s # <<>> /\ Head(s) = "/" THEN LStrip(Tail(s)) ELSE s

\* archive.py 184-187 (and 85-88): the name of an object inside the archive
ArchiveName(key, prefix, strip) ==
    IF strip /\ StartsWith(key, prefix)
    THEN LStrip(SubSeq(key, Len(prefix) + 1, Len(key)))
    ELSE key

\* the store's paginator: the keys under the prefix, PageSize per page; a
\* listing that matches nothing is one page without "Contents"
RECURSIVE Pages(_)
Pages(objs) ==
    IF Len(objs) = 0 THEN <<>>
    ELSE IF Len(objs) <= PageSize
         THEN << [hasContents |-> TRUE, Contents |-> objs] >>
         ELSE << [hasContents |-> TRUE, Contents |-> SubSeq(objs, 1, PageSize)] >>
              \o Pages(SubSeq(objs, PageSize + 1, Len(objs)))

Paginate(bkt, prefix) ==
    LET match == SelectSeq(bkt, LAMBDA o : StartsWith(o.Key, prefix))
    IN  IF match = <<>> THEN << [hasContents |-> FALSE, Contents |-> <<>>] >>
        ELSE Pages(match)

\* archive.py 36-46; the first definition is a faulty variant that reads the
\* first page only
ListObjects_FirstPage(pgs) ==
    IF pgs = <<>> \/ ~Head(pgs).hasContents THEN <<>>
    ELSE SelectSeq(Head(pgs).Contents, LAMBDA o : ~EndsWithSlash(o.Key))
RECURSIVE ListObjects(_)
ListObjects(pgs) ==
    IF pgs = <<>> THEN <<>>
    ELSE (IF Head(pgs).hasContents
          THEN SelectSeq(Head(pgs).Contents, LAMBDA o : ~EndsWithSlash(o.Key))
          ELSE <<>>) \o ListObjects(Tail(pgs))

\* archive.py 25: self.max_size_bytes is a whole number of bytes
Budgets == 0 .. MaxBudget

\* archive.py 69 / 162
ValidCompressions == { "gz", "bz2", "xz" }
CompressionFalsy(c) == c = "None" \/ c = ""
CompressionRejected(c) == ~CompressionFalsy(c) /\ c \notin ValidCompressions
TarMode(c) == IF CompressionFalsy(c) THEN "w|" ELSE "w|" \o c

\* archive.py 206: output_pattern.format(chunk_num)
Format(pattern, n) ==
    [k \in 1 .. Len(pattern) |-> IF pattern[k] = "{}" THEN ToString(n) ELSE pattern[k]]

\* archive.py 205 (the first definition is a faulty variant: it skips an index)
NextChunkNum_Skip(n) == n + 2
NextChunkNum(n) == n + 1

\* archive.py 195-197: does this object start a new chunk?  The first four
\* definitions are faulty variants: the incoming size is ignored, the budget
\* is off by one, an open chunk is never rotated, a chunk filled exactly to
\* the budget is rotated.
NeedNewChunk_NoSize(tarRef, cur, size, max, files) ==
    tarRef = 0 \/ (cur > max /\ files > 0)
NeedNewChunk_OrEqual(tarRef, cur, size, max, files) ==
    tarRef = 0 \/ (cur + size > max + 1 /\ files > 0)
NeedNewChunk_Never(tarRef, cur, size, max, files) ==
    tarRef = 0
NeedNewChunk_AtLeast(tarRef, cur, size, max, files) ==
    tarRef = 0 \/ (cur + size >= max /\ files > 0)
NeedNewChunk(tarRef, cur, size, max, files) ==
    tarRef = 0 \/ (cur + size > max /\ files > 0)

\* archive.py 190-191 (and 91-92); the first definition is a faulty variant
\* that skips nothing
SkipObject_Never(name) == FALSE
SkipObject(name) == name = <<>>

\* tarfile: TarFile.addfile appends one member (archive.py 226, 104); the
\* first definition is a faulty variant that puts it in front
AddFile_Front(w, entry) == [w EXCEPT !.entries = <<entry>> \o @]
AddFile(w, entry) == [w EXCEPT !.entries = Append(@, entry)]

\* tarfile: TarFile.close marks the writer closed before it writes the
\* trailer, so a second close is a no-op (archive.py 200, 235)
TarClose(w, ok) ==
    IF w.closed THEN [w EXCEPT !.closeCalls = @ + 1]
    ELSE [w EXCEPT !.closed = TRUE, !.closeCalls = @ + 1, !.trailer = ok]

\* file.close() (archive.py 201, 211, 236); the first definition is a faulty
\* variant that leaves the file open
FileClose_Noop(s) == s
FileClose(s) == [s EXCEPT !.closed = TRUE]

\* body.close() (archive.py 230, 107); the first definition is a faulty
\* variant that leaves the handle open
CloseBody_Leak(b) == b
CloseBody(b) == [b EXCEPT !.closed = TRUE]

\* archive.py 179 (and 80): the for loop moves to the next listed object; the
\* first definition is a faulty variant that stays on the same object
NextIndex_Stay(i) == i
NextIndex(i) == i + 1

\* archive.py 227: current_size += size; the first definition is a faulty
\* variant that counts files instead of bytes
AddSize_Count(cur, size) == cur + 1
AddSize(cur, size) == cur + size

\* archive.py 169: list_objects is called outside any try block, so an error
\* of the store leaves the method at once; the first definition is a faulty
\* variant that swallows the error and goes on with an empty listing
OnListError_Swallow == "c_loop"
OnListError == "raised"

\* ------------------------------------------------------------------ state
VARIABLES
    bucket,          \* the store: objects in listing order
    pages,           \* the pages the paginator yields to list_objects
    max_size_bytes,  \* self.max_size_bytes
    op,              \* which method was called
    pc,              \* position in the method
    prefix, output_pattern, strip_prefix, compression, mode,
    objects, idx,    \* the listing and the position of the for loop
    chunks, chunk_num, current_size, files_in_chunk, current_filename,
    tar, output_file, body,   \* references: 0 is None, else an index
    archive_name, file_count,
    exc,             \* the exception in flight ("none" when there is none)
    result,          \* the returned value
    sinks,           \* every output sink: [name, closed, owner]
    writers,         \* every archive writer: [sink, mode, entries, closed, closeCalls, trailer]
    bodies,          \* every object read handle: [Key, closed]
    getCalls,        \* keys passed to get_object
    listCalls        \* number of listings started

storeVars == << bucket, max_size_bytes >>
callVars  == << op, prefix, output_pattern, strip_prefix, compression, mode >>
envVars   == << sinks, writers, bodies, getCalls, listCalls >>
chunkVars == << chunks, chunk_num, current_size, files_in_chunk, current_filename >>
vars == << bucket, pages, max_size_bytes, op, pc, prefix, output_pattern, strip_prefix,
           compression, mode, objects, idx, chunks, chunk_num, current_size, files_in_chunk,
           current_filename, tar, output_file, body, archive_name, file_count,
           exc, result, sinks, writers, bodies, getCalls, listCalls >>

RECURSIVE PickKeys(_, _)
PickKeys(S, k) ==
    IF k > Len(KeyOrder) THEN <<>>
    ELSE (IF k \in S THEN << KeyOrder[k] >> ELSE <<>>) \o PickKeys(S, k + 1)

Buckets ==
    UNION { { [j \in 1 .. Cardinality(S) |-> [Key |-> PickKeys(S, 1)[j], Size |-> sz[j]]] :
              sz \in [1 .. Cardinality(S) -> 0 .. MaxSize] } :
            S \in { T \in SUBSET (1 .. Len(KeyOrder)) : Cardinality(T) <= MaxObjs } }

\* archive.py 22-25 and the state before any method is called
Init ==
    /\ bucket \in Buckets
    /\ pages = <<>>
    /\ max_size_bytes \in Budgets
    /\ op = "none" /\ pc = "idle"
    /\ prefix = <<>> /\ output_pattern = <<>> /\ strip_prefix = TRUE
    /\ compression = "None" /\ mode = ""
    /\ objects = <<>> /\ idx = 1
    /\ chunks = <<>> /\ chunk_num = 0 /\ current_size = 0
    /\ files_in_chunk = 0 /\ current_filename = NoName
    /\ tar = 0 /\ output_file = 0 /\ body = 0
    /\ archive_name = <<>> /\ file_count = 0
    /\ exc = "none" /\ result = <<>>
    /\ sinks = <<>> /\ writers = <<>> /\ bodies = <<>>
    /\ getCalls = <<>> /\ listCalls = 0

NewWriter(sinkRef, m) ==
    [sink |-> sinkRef, mode |-> m, entries |-> <<>>, closed |-> FALSE,
     closeCalls |-> 0, trailer |-> FALSE]
NewSink(name, who) == [name |-> name, closed |-> FALSE, owner |-> who]
Entry(o, name) == [name |-> name, size |-> o.Size, key |-> o.Key]

\* ------------------------------------------------ archive_to_files_chunked
Obj == objects[idx]

\* archive.py 137-143: the call and its arguments
CallChunked(p, pat, strip, c) ==
    /\ pc = "idle"
    /\ op' = "chunked" /\ prefix' = p /\ output_pattern' = pat
    /\ strip_prefix' = strip /\ compression' = c
    /\ pc' = "c_validate"
    /\ UNCHANGED << storeVars, pages, mode, objects, idx, chunkVars, tar, output_file, body,
                    archive_name, file_count, exc, result, envVars >>

\* archive.py 159-167: the tar mode; an unknown compression raises ValueError
ChunkedValidate ==
    /\ pc = "c_validate"
    /\ IF CompressionRejected(compression)
       THEN mode' = "w|" /\ exc' = "ValueError" /\ pc' = "raised"
       ELSE mode' = TarMode(compression) /\ exc' = exc /\ pc' = "c_list"
    /\ UNCHANGED << storeVars, pages, op, prefix, output_pattern, strip_prefix, compression,
                    objects, idx, chunkVars, tar, output_file, body,
                    archive_name, file_count, result, envVars >>

\* archive.py 169-176: the listing, outside the try block
ChunkedList ==
    /\ pc = "c_list"
    /\ listCalls' = listCalls + 1
    /\ \/ /\ pages' = Paginate(bucket, prefix)
          /\ objects' = ListObjects(pages')
          /\ pc' = "c_loop" /\ exc' = exc
       \/ /\ UNCHANGED << pages, objects >>
          /\ pc' = OnListError /\ exc' = "ListingError"
    /\ UNCHANGED << storeVars, callVars, idx, chunkVars, tar, output_file, body,
                    archive_name, file_count, result, sinks, writers, bodies, getCalls >>

\* archive.py 179-197: next object, its archive name, the empty-name skip,
\* then the capacity check
ChunkedNext ==
    /\ pc = "c_loop"
    /\ IF idx > Len(objects)
       THEN /\ pc' = "c_finally"
            /\ UNCHANGED << idx, archive_name >>
       ELSE LET name == ArchiveName(Obj.Key, prefix, strip_prefix)
            IN  /\ archive_name' = name
                /\ IF SkipObject(name)
                   THEN idx' = NextIndex(idx) /\ pc' = pc
                   ELSE /\ idx' = idx
                        /\ pc' = IF NeedNewChunk(tar, current_size, Obj.Size,
                                                 max_size_bytes, files_in_chunk)
                                 THEN (IF tar # 0 THEN "c_rotate" ELSE "c_open")
                                 ELSE "c_get"
    /\ UNCHANGED << storeVars, pages, callVars, objects, chunkVars, tar, output_file, body,
                    file_count, exc, result, envVars >>

\* archive.py 199-202: finalize the open chunk before the next one
ChunkedRotate ==
    /\ pc = "c_rotate"
    /\ \/ /\ writers' = [writers EXCEPT ![tar] = TarClose(@, TRUE)]
          /\ sinks' = [sinks EXCEPT ![output_file] = FileClose(@)]
          /\ chunks' = Append(chunks, << current_filename, files_in_chunk >>)
          /\ pc' = "c_open" /\ exc' = exc
       \/ /\ ~writers[tar].closed
          /\ writers' = [writers EXCEPT ![tar] = TarClose(@, FALSE)]
          /\ pc' = "c_finally" /\ exc' = "CloseError"
          /\ UNCHANGED << sinks, chunks >>
    /\ UNCHANGED << storeVars, pages, callVars, objects, idx, chunk_num, current_size,
                    files_in_chunk, current_filename, tar, output_file, body,
                    archive_name, file_count, result, bodies, getCalls, listCalls >>

\* archive.py 205-207: the next index, its file name, the output file
ChunkedOpen ==
    /\ pc = "c_open"
    /\ chunk_num' = NextChunkNum(chunk_num)
    /\ current_filename' = Format(output_pattern, chunk_num')
    /\ \/ /\ sinks' = Append(sinks, NewSink(current_filename', "self"))
          /\ output_file' = Len(sinks')
          /\ pc' = "c_taropen" /\ exc' = exc
       \/ /\ pc' = "c_finally" /\ exc' = "OpenError"
          /\ UNCHANGED << sinks, output_file >>
    /\ UNCHANGED << storeVars, pages, callVars, objects, idx, chunks, current_size,
                    files_in_chunk, tar, body, archive_name, file_count, result,
                    writers, bodies, getCalls, listCalls >>

\* archive.py 208-214: the archive writer on the new file, counters reset
ChunkedTarOpen ==
    /\ pc = "c_taropen"
    /\ \/ /\ writers' = Append(writers, NewWriter(output_file, mode))
          /\ tar' = Len(writers')
          /\ current_size' = 0 /\ files_in_chunk' = 0
          /\ pc' = "c_get" /\ exc' = exc
          /\ sinks' = sinks
       \/ /\ sinks' = [sinks EXCEPT ![output_file] = FileClose(@)]
          /\ pc' = "c_finally" /\ exc' = "TarOpenError"
          /\ UNCHANGED << writers, tar, current_size, files_in_chunk >>
    /\ UNCHANGED << storeVars, pages, callVars, objects, idx, chunks, chunk_num,
                    current_filename, output_file, body, archive_name, file_count,
                    result, bodies, getCalls, listCalls >>

\* archive.py 217-218: get_object and its body
ChunkedGet ==
    /\ pc = "c_get"
    /\ getCalls' = Append(getCalls, Obj.Key)
    /\ \/ /\ bodies' = Append(bodies, [Key |-> Obj.Key, closed |-> FALSE])
          /\ body' = Len(bodies')
          /\ pc' = "c_add" /\ exc' = exc
       \/ /\ pc' = "c_finally" /\ exc' = "GetError"
          /\ UNCHANGED << bodies, body >>
    /\ UNCHANGED << storeVars, pages, callVars, objects, idx, chunkVars, tar, output_file,
                    archive_name, file_count, result, sinks, writers, listCalls >>

\* archive.py 220-228: the entry is written, then the counters move
ChunkedAdd ==
    /\ pc = "c_add"
    /\ \/ /\ writers' = [writers EXCEPT ![tar] = AddFile(@, Entry(Obj, archive_name))]
          /\ current_size' = AddSize(current_size, Obj.Size)
          /\ files_in_chunk' = files_in_chunk + 1
          /\ exc' = exc
       \/ /\ exc' = "WriteError"
          /\ UNCHANGED << writers, current_size, files_in_chunk >>
    /\ pc' = "c_bodyclose"
    /\ UNCHANGED << storeVars, pages, callVars, objects, idx, chunks, chunk_num,
                    current_filename, tar, output_file, body, archive_name,
                    file_count, result, sinks, bodies, getCalls, listCalls >>

\* archive.py 229-230: the inner finally
ChunkedBodyClose ==
    /\ pc = "c_bodyclose"
    /\ bodies' = [bodies EXCEPT ![body] = CloseBody(@)]
    /\ IF exc = "none"
       THEN idx' = NextIndex(idx) /\ pc' = "c_loop"
       ELSE idx' = idx /\ pc' = "c_finally"
    /\ UNCHANGED << storeVars, pages, callVars, objects, chunkVars, tar, output_file, body,
                    archive_name, file_count, exc, result, sinks, writers,
                    getCalls, listCalls >>

\* archive.py 232-239: the outer finally, then return or re-raise
ChunkedFinally ==
    /\ pc = "c_finally"
    /\ IF tar = 0
       THEN /\ UNCHANGED << writers, sinks, chunks >>
            /\ exc' = exc
            /\ IF exc = "none" THEN pc' = "returned" /\ result' = chunks
                               ELSE pc' = "raised" /\ result' = result
       ELSE \/ /\ writers' = [writers EXCEPT ![tar] = TarClose(@, TRUE)]
               /\ sinks' = [sinks EXCEPT ![output_file] = FileClose(@)]
               /\ chunks' = Append(chunks, << current_filename, files_in_chunk >>)
               /\ exc' = exc
               /\ IF exc = "none" THEN pc' = "returned" /\ result' = chunks'
                                  ELSE pc' = "raised" /\ result' = result
            \/ /\ ~writers[tar].closed
               /\ writers' = [writers EXCEPT ![tar] = TarClose(@, FALSE)]
               /\ exc' = "CloseError" /\ pc' = "raised"
               /\ UNCHANGED << sinks, chunks, result >>
    /\ UNCHANGED << storeVars, pages, callVars, objects, idx, chunk_num, current_size,
                    files_in_chunk, current_filename, tar, output_file, body,
                    archive_name, file_count, bodies, getCalls, listCalls >>

Chunked ==
    \/ \E p \in Prefixes, pat \in Patterns, strip \in BOOLEAN, c \in Compressions :
          CallChunked(p, pat, strip, c)
    \/ ChunkedValidate \/ ChunkedList \/ ChunkedNext \/ ChunkedRotate \/ ChunkedOpen
    \/ ChunkedTarOpen \/ ChunkedGet \/ ChunkedAdd \/ ChunkedBodyClose \/ ChunkedFinally

\* ------------------------------------------- stream_to_tar, archive_to_file
OutputPaths == { <<"out.tar">> }

\* where stream_to_tar's caller continues: archive_to_file's with block, or
\* the end of the call
AfterStream(e) ==
    IF op = "file" THEN "f_exit" ELSE IF e = "none" THEN "returned" ELSE "raised"

\* archive.py 48-54: the call; the sink is the caller's, already open
CallStream(p, strip, c) ==
    /\ pc = "idle"
    /\ op' = "stream" /\ prefix' = p /\ strip_prefix' = strip /\ compression' = c
    /\ sinks' = Append(sinks, NewSink(<<"output">>, "caller"))
    /\ output_file' = Len(sinks')
    /\ pc' = "s_validate"
    /\ UNCHANGED << storeVars, pages, output_pattern, mode, objects, idx, chunkVars, tar,
                    body, archive_name, file_count, exc, result, writers, bodies,
                    getCalls, listCalls >>

\* archive.py 111-135: the call; open(output_path, "wb") comes first
CallFile(p, path, strip, c) ==
    /\ pc = "idle"
    /\ op' = "file" /\ prefix' = p /\ strip_prefix' = strip /\ compression' = c
    /\ current_filename' = path
    /\ \/ /\ sinks' = Append(sinks, NewSink(path, "self"))
          /\ output_file' = Len(sinks')
          /\ pc' = "s_validate" /\ exc' = exc
       \/ /\ pc' = "raised" /\ exc' = "OpenError"
          /\ UNCHANGED << sinks, output_file >>
    /\ UNCHANGED << storeVars, pages, output_pattern, mode, objects, idx, chunks, chunk_num,
                    current_size, files_in_chunk, tar, body, archive_name,
                    file_count, result, writers, bodies, getCalls, listCalls >>

\* archive.py 66-74
StreamValidate ==
    /\ pc = "s_validate"
    /\ IF CompressionRejected(compression)
       THEN mode' = "w|" /\ exc' = "ValueError" /\ pc' = AfterStream("ValueError")
       ELSE mode' = TarMode(compression) /\ exc' = exc /\ pc' = "s_list"
    /\ UNCHANGED << storeVars, pages, op, prefix, output_pattern, strip_prefix, compression,
                    objects, idx, chunkVars, tar, output_file, body,
                    archive_name, file_count, result, envVars >>

\* archive.py 76-77
StreamList ==
    /\ pc = "s_list"
    /\ listCalls' = listCalls + 1
    /\ \/ /\ pages' = Paginate(bucket, prefix)
          /\ objects' = ListObjects(pages')
          /\ pc' = "s_taropen" /\ exc' = exc
       \/ /\ UNCHANGED << pages, objects >>
          /\ exc' = "ListingError" /\ pc' = AfterStream("ListingError")
    /\ UNCHANGED << storeVars, callVars, idx, chunkVars, tar, output_file, body,
                    archive_name, file_count, result, sinks, writers, bodies, getCalls >>

\* archive.py 79: tarfile.open on the sink, whatever the listing holds
StreamTarOpen ==
    /\ pc = "s_taropen"
    /\ \/ /\ writers' = Append(writers, NewWriter(output_file, mode))
          /\ tar' = Len(writers')
          /\ pc' = "s_loop" /\ exc' = exc
       \/ /\ exc' = "TarOpenError" /\ pc' = AfterStream("TarOpenError")
          /\ UNCHANGED << writers, tar >>
    /\ UNCHANGED << storeVars, pages, callVars, objects, idx, chunkVars, output_file, body,
                    archive_name, file_count, result, sinks, bodies, getCalls, listCalls >>

\* archive.py 80-92
StreamNext ==
    /\ pc = "s_loop"
    /\ IF idx > Len(objects)
       THEN /\ pc' = "s_exit"
            /\ UNCHANGED << idx, archive_name >>
       ELSE LET name == ArchiveName(Obj.Key, prefix, strip_prefix)
            IN  /\ archive_name' = name
                /\ IF SkipObject(name)
                   THEN idx' = NextIndex(idx) /\ pc' = pc
                   ELSE idx' = idx /\ pc' = "s_get"
    /\ UNCHANGED << storeVars, pages, callVars, objects, chunkVars, tar, output_file, body,
                    file_count, exc, result, envVars >>

\* archive.py 95-96
StreamGet ==
    /\ pc = "s_get"
    /\ getCalls' = Append(getCalls, Obj.Key)
    /\ \/ /\ bodies' = Append(bodies, [Key |-> Obj.Key, closed |-> FALSE])
          /\ body' = Len(bodies')
          /\ pc' = "s_add" /\ exc' = exc
       \/ /\ pc' = "s_exit" /\ exc' = "GetError"
          /\ UNCHANGED << bodies, body >>
    /\ UNCHANGED << storeVars, pages, callVars, objects, idx, chunkVars, tar, output_file,
                    archive_name, file_count, result, sinks, writers, listCalls >>

\* archive.py 98-105
StreamAdd ==
    /\ pc = "s_add"
    /\ \/ /\ writers' = [writers EXCEPT ![tar] = AddFile(@, Entry(Obj, archive_name))]
          /\ file_count' = file_count + 1
          /\ exc' = exc
       \/ /\ exc' = "WriteError"
          /\ UNCHANGED << writers, file_count >>
    /\ pc' = "s_bodyclose"
    /\ UNCHANGED << storeVars, pages, callVars, objects, idx, chunkVars, tar, output_file,
                    body, archive_name, result, sinks, bodies, getCalls, listCalls >>

\* archive.py 106-107
StreamBodyClose ==
    /\ pc = "s_bodyclose"
    /\ bodies' = [bodies EXCEPT ![body] = CloseBody(@)]
    /\ IF exc = "none"
       THEN idx' = NextIndex(idx) /\ pc' = "s_loop"
       ELSE idx' = idx /\ pc' = "s_exit"
    /\ UNCHANGED << storeVars, pages, callVars, objects, chunkVars, tar, output_file, body,
                    archive_name, file_count, exc, result, sinks, writers,
                    getCalls, listCalls >>

\* archive.py 79, 109: leaving the with block closes the writer (without the
\* trailer when an exception is in flight), then the count is returned
StreamExit ==
    /\ pc = "s_exit"
    /\ IF exc = "none"
       THEN \/ /\ writers' = [writers EXCEPT ![tar] = TarClose(@, TRUE)]
               /\ result' = file_count /\ exc' = exc
               /\ pc' = AfterStream("none")
            \/ /\ writers' = [writers EXCEPT ![tar] = TarClose(@, FALSE)]
               /\ result' = result /\ exc' = "CloseError"
               /\ pc' = AfterStream("CloseError")
       ELSE /\ writers' = [writers EXCEPT ![tar] = [@ EXCEPT !.closed = TRUE]]
            /\ result' = result /\ exc' = exc
            /\ pc' = AfterStream(exc)
    /\ UNCHANGED << storeVars, pages, callVars, objects, idx, chunkVars, tar, output_file,
                    body, archive_name, file_count, sinks, bodies, getCalls, listCalls >>

\* archive.py 129: leaving "with open(...) as f" closes the file
FileExit ==
    /\ pc = "f_exit"
    /\ sinks' = [sinks EXCEPT ![output_file] = FileClose(@)]
    /\ pc' = IF exc = "none" THEN "returned" ELSE "raised"
    /\ UNCHANGED << storeVars, pages, callVars, objects, idx, chunkVars, tar, output_file,
                    body, archive_name, file_count, exc, result, writers, bodies,
                    getCalls, listCalls >>

Single ==
    \/ \E p \in Prefixes, strip \in BOOLEAN, c \in Compressions : CallStream(p, strip, c)
    \/ \E p \in Prefixes, path \in OutputPaths, strip \in BOOLEAN, c \in Compressions :
          CallFile(p, path, strip, c)
    \/ StreamValidate \/ StreamList \/ StreamTarOpen \/ StreamNext \/ StreamGet
    \/ StreamAdd \/ StreamBodyClose \/ StreamExit \/ FileExit

Next == Chunked \/ Single

Spec == Init /\ [][Next]_vars

\* the chunked path alone; every step of a call that has started is taken
\* (one thread of control, nothing waits on anything but the call itself)
SpecChunkedFair == Init /\ [][Chunked]_vars /\ WF_vars(Chunked)

\* ------------------------------------------------- list_objects on its own
\* what the paginator may yield: the keys in store order, cut into two pages
\* of at most PageSize keys around a page that has no "Contents"
Page(objs) == [hasContents |-> TRUE, Contents |-> objs]
NoContentsPage == [hasContents |-> FALSE, Contents |-> <<>>]
PageLists ==
    UNION { { << Page(SubSeq(r, 1, c)), NoContentsPage, Page(SubSeq(r, c + 1, Len(r))) >> :
              c \in { d \in 0 .. Len(r) : d <= PageSize /\ Len(r) - d <= PageSize } } :
            r \in Buckets }

InitList ==
    /\ bucket = <<>>
    /\ pages \in PageLists
    /\ max_size_bytes \in Budgets
    /\ op = "none" /\ pc = "idle"
    /\ prefix = <<>> /\ output_pattern = <<>> /\ strip_prefix = TRUE
    /\ compression = "None" /\ mode = ""
    /\ objects = <<>> /\ idx = 1
    /\ chunks = <<>> /\ chunk_num = 0 /\ current_size = 0
    /\ files_in_chunk = 0 /\ current_filename = NoName
    /\ tar = 0 /\ output_file = 0 /\ body = 0
    /\ archive_name = <<>> /\ file_count = 0
    /\ exc = "none" /\ result = <<>>
    /\ sinks = <<>> /\ writers = <<>> /\ bodies = <<>>
    /\ getCalls = <<>> /\ listCalls = 0

\* archive.py 27: the call
CallList(p) ==
    /\ pc = "idle"
    /\ op' = "list" /\ prefix' = p
    /\ pc' = "l_run"
    /\ UNCHANGED << storeVars, pages, output_pattern, strip_prefix, compression, mode,
                    objects, idx, chunkVars, tar, output_file, body, archive_name,
                    file_count, exc, result, envVars >>

\* archive.py 36-46: every page is read, the list is returned; a failing
\* paginator raises
ListRun ==
    /\ pc = "l_run"
    /\ listCalls' = listCalls + 1
    /\ \/ /\ objects' = ListObjects(pages)
          /\ result' = objects'
          /\ pc' = "returned" /\ exc' = exc
       \/ /\ UNCHANGED << objects, result >>
          /\ pc' = "raised" /\ exc' = "ListingError"
    /\ UNCHANGED << storeVars, pages, callVars, idx, chunkVars, tar, output_file, body,
                    archive_name, file_count, sinks, writers, bodies, getCalls >>

NextList == (\E p \in Prefixes : CallList(p)) \/ ListRun

SpecList == InitList /\ [][NextList]_vars

\* ----------------------------------------------------- derived quantities
\* the listed objects that are not skipped, as the entries they should become
Kept(objs) == SelectSeq(objs, LAMBDA o : ArchiveName(o.Key, prefix, strip_prefix) # <<>>)
EntriesOf(objs) ==
    [j \in 1 .. Len(Kept(objs)) |->
        Entry(Kept(objs)[j], ArchiveName(Kept(objs)[j].Key, prefix, strip_prefix))]
ExpectedEntries == EntriesOf(objects)

\* what a file on disk holds: the entries of the last writer opened on a sink
\* of that name (opening with "wb" truncates)
WritersOn(name) == { w \in 1 .. Len(writers) : sinks[writers[w].sink].name = name }
FileEntries(name) ==
    IF WritersOn(name) = {} THEN <<>>
    ELSE writers[CHOOSE w \in WritersOn(name) : \A v \in WritersOn(name) : v <= w].entries

RECURSIVE ConcatChunks(_)
ConcatChunks(res) ==
    IF res = <<>> THEN <<>> ELSE FileEntries(res[1][1]) \o ConcatChunks(Tail(res))

RECURSIVE SumSizes(_)
SumSizes(es) == IF es = <<>> THEN 0 ELSE es[1].size + SumSizes(Tail(es))

RECURSIVE SumCounts(_)
SumCounts(res) == IF res = <<>> THEN 0 ELSE res[1][2] + SumCounts(Tail(res))

ChunkedReturned == op = "chunked" /\ pc = "returned"
Ended == pc \in { "returned", "raised" }
OwnSinks == { k \in 1 .. Len(sinks) : sinks[k].owner = "self" }

\* ------------------------------------------------------------------ claims

\* C1: after archive_to_files_chunked returns, the entries of the produced
\* chunk files, concatenated in chunk order, are exactly the listed objects
\* with a non-empty archive name, in listing order.
C1_ChunksHoldListingInOrder ==
    ChunkedReturned => ConcatChunks(result) = ExpectedEntries

C1_Witness ==
    /\ ChunkedReturned
    /\ Len(result) >= 2
    /\ Len(ExpectedEntries) >= 3

\* C2: every chunk whose writer was closed by archive_to_files_chunked holds
\* at most max_size_bytes of listed sizes, unless it holds exactly one object
\* and that object alone is larger than max_size_bytes.
C2_ChunkCapacity ==
    op = "chunked" =>
        \A w \in 1 .. Len(writers) :
            writers[w].closed =>
                \/ SumSizes(writers[w].entries) <= max_size_bytes
                \/ /\ Len(writers[w].entries) = 1
                   /\ writers[w].entries[1].size > max_size_bytes

C2_Witness ==
    /\ op = "chunked"
    /\ \E w1, w2 \in 1 .. Len(writers) :
          /\ writers[w1].closed /\ writers[w2].closed
          /\ Len(writers[w1].entries) = 2
          /\ SumSizes(writers[w1].entries) = max_size_bytes
          /\ Len(writers[w2].entries) = 1
          /\ writers[w2].entries[1].size > max_size_bytes

\* C3: no chunk finalized by archive_to_files_chunked (by rotation, at the end
\* of the input, or by the cleanup after a failed fetch or write) is recorded
\* with a file count of 0.
C3_NoEmptyChunkFinalized ==
    op = "chunked" => \A k \in 1 .. Len(chunks) : chunks[k][2] # 0

\* C4: when a call fails on an unrecognized compression, no listing and no
\* get_object call was made and no output file was created or opened.
C4_InvalidCompressionBeforeIO ==
    exc = "ValueError" => listCalls = 0 /\ getCalls = <<>> /\ OwnSinks = {}

\* C5: when archive_to_files_chunked or stream_to_tar has returned or raised,
\* every output sink it opened and every object read handle is closed.
C5_AllHandlesReleased ==
    (op \in { "chunked", "stream" } /\ Ended) =>
        /\ \A k \in OwnSinks : sinks[k].closed
        /\ \A b \in 1 .. Len(bodies) : bodies[b].closed

\* C6: an object larger than the budget is the only member of the chunk that
\* holds it, and after a normal return every such non-skipped object is in a
\* chunk of the result.
C6_OversizedAlone ==
    op = "chunked" =>
        /\ \A w \in 1 .. Len(writers) :
              \A e \in 1 .. Len(writers[w].entries) :
                  writers[w].entries[e].size > max_size_bytes
                      => Len(writers[w].entries) = 1
        /\ pc = "returned" =>
              \A j \in 1 .. Len(ExpectedEntries) :
                  ExpectedEntries[j].size > max_size_bytes =>
                      \E k \in 1 .. Len(result) :
                          FileEntries(result[k][1]) = << ExpectedEntries[j] >>

C6_Witness ==
    /\ ChunkedReturned
    /\ Len(ExpectedEntries) = 3
    /\ ExpectedEntries[1].size <= max_size_bytes
    /\ ExpectedEntries[2].size > max_size_bytes
    /\ ExpectedEntries[3].size <= max_size_bytes
    /\ Len(result) = 3

\* C7: when no listed object has a non-empty archive name, a run of
\* archive_to_files_chunked never opens an output file or an archive writer,
\* and it returns the empty sequence.
C7_EmptyInputNoOutput ==
    (op = "chunked" /\ EntriesOf(ListObjects(Paginate(bucket, prefix))) = <<>>) =>
        /\ sinks = <<>> /\ writers = <<>>
        /\ pc = "returned" => result = <<>>

C7_Witness ==
    /\ ChunkedReturned
    /\ objects # <<>>
    /\ ExpectedEntries = <<>>
    /\ result = <<>>

\* C8: stream_to_tar and archive_to_file produce exactly one archive when an
\* object is placed; when the filtered input is empty they open no archive
\* writer, create no output file and return 0.
C8_SingleModeZeroOrOne ==
    (op \in { "stream", "file" } /\ pc = "returned") =>
        IF ExpectedEntries = <<>>
        THEN writers = <<>> /\ OwnSinks = {} /\ result = 0
        ELSE Len(writers) = 1

\* C9 as claimed: with max_size_bytes = 0 archive_to_files_chunked returns at
\* most one chunk, which holds every non-skipped object.
C9_ZeroBudgetSingleChunk ==
    (ChunkedReturned /\ max_size_bytes = 0) =>
        /\ Len(result) <= 1
        /\ ConcatChunks(result) = ExpectedEntries

\* C9 as amended: with max_size_bytes = 0 the ordinary rotation rule applies:
\* the chunks together hold every non-skipped object in order, an object of
\* positive size is alone in its chunk, and there is at most one chunk exactly
\* when at most one object is kept or all kept objects have size 0.
C9_ZeroBudgetRotates ==
    (ChunkedReturned /\ max_size_bytes = 0) =>
        /\ ConcatChunks(result) = ExpectedEntries
        /\ \A k \in 1 .. Len(result) :
              LET es == FileEntries(result[k][1])
              IN  Len(es) > 1 => \A e \in 1 .. Len(es) : es[e].size = 0
        /\ Len(result) <= 1 <=>
              (Len(ExpectedEntries) <= 1 \/ SumSizes(ExpectedEntries) = 0)

C9_Witness ==
    /\ ChunkedReturned /\ max_size_bytes = 0
    /\ Len(ExpectedEntries) = 3
    /\ Len(result) = 2
    /\ result[1][2] = 2

\* C10: the result has one record per chunk in creation order, named by the
\* pattern rendered with 1, 2, ..., n; each count is the number of entries
\* written to that chunk, and the counts sum to the number of kept objects.
C10_ResultRecords ==
    ChunkedReturned =>
        /\ Len(result) = Len(writers)
        /\ \A k \in 1 .. Len(result) :
              /\ result[k][1] = Format(output_pattern, k)
              /\ sinks[writers[k].sink].name = result[k][1]
              /\ result[k][2] = Len(writers[k].entries)
        /\ SumCounts(result) = Len(ExpectedEntries)

C10_Witness ==
    /\ ChunkedReturned
    /\ Len(result) = 2
    /\ result[1][2] = 2
    /\ result[2][2] = 1

\* C11: list_objects returns the entries of all pages in page order, minus
\* exactly those whose key ends with "/"; a page without contents adds nothing.
RECURSIVE FlatPages(_)
FlatPages(pgs) ==
    IF pgs = <<>> THEN <<>>
    ELSE (IF Head(pgs).hasContents THEN Head(pgs).Contents ELSE <<>>)
         \o FlatPages(Tail(pgs))
NonMarkers(flat) ==
    { i \in 1 .. Len(flat) : flat[i].Key[Len(flat[i].Key)] # "/" }
NthOf(S, j) == CHOOSE i \in S : Cardinality({ k \in S : k <= i }) = j

C11_ListIsPagesMinusMarkers ==
    (op = "list" /\ pc = "returned") =>
        LET flat == FlatPages(pages)
            keep == NonMarkers(flat)
        IN  /\ Len(result) = Cardinality(keep)
            /\ \A j \in 1 .. Len(result) : result[j] = flat[NthOf(keep, j)]

C11_Witness ==
    /\ op = "list" /\ pc = "returned"
    /\ pages[1].Contents # <<>> /\ ~pages[2].hasContents /\ pages[3].Contents # <<>>
    /\ Len(result) = 2
    /\ Len(FlatPages(pages)) = 3

\* C12: a kept object makes archive_to_files_chunked rotate exactly when a
\* chunk is open, current_size + size > max_size_bytes and files_in_chunk > 0;
\* so the object that starts a chunk would not have fit in the chunk before.
RotationDue ==
    /\ tar # 0 /\ ~writers[tar].closed
    /\ current_size + objects[idx].Size > max_size_bytes
    /\ files_in_chunk > 0
AtKeptObject ==
    /\ op = "chunked" /\ pc = "c_loop" /\ idx <= Len(objects)
    /\ ArchiveName(objects[idx].Key, prefix, strip_prefix) # <<>>
GreedyPacking ==
    \A w \in 1 .. Len(writers) - 1 :
        writers[w + 1].entries # <<>> =>
            SumSizes(writers[w].entries) + writers[w + 1].entries[1].size > max_size_bytes

C12_RotationIffOverflow ==
    /\ [][AtKeptObject => (pc' = "c_rotate" <=> RotationDue)]_vars
    /\ [](op = "chunked" => GreedyPacking)

C12_Witness ==
    /\ op = "chunked" /\ pc = "c_open"
    /\ tar # 0 /\ writers[tar].closed
    /\ Len(writers[tar].entries) = 2
    /\ SumSizes(writers[tar].entries) = 2

\* C13: close() is called exactly once on every archive writer that
\* archive_to_files_chunked opens: never twice, and once by the end of the call.
C13_CloseExactlyOnce ==
    op = "chunked" =>
        \A w \in 1 .. Len(writers) :
            /\ writers[w].closeCalls <= 1
            /\ Ended => writers[w].closeCalls = 1

\* C14: in archive_to_files_chunked at most one archive writer and at most one
\* output file are open at any time, always the latest; when the next file is
\* opened, every earlier chunk is closed and recorded.
OpenWriters == { w \in 1 .. Len(writers) : ~writers[w].closed }
OpenSinks == { k \in OwnSinks : ~sinks[k].closed }

C14_OneChunkOpen ==
    op = "chunked" =>
        /\ Cardinality(OpenWriters) <= 1 /\ OpenWriters \subseteq { Len(writers) }
        /\ Cardinality(OpenSinks) <= 1 /\ OpenSinks \subseteq { Len(sinks) }
        /\ Len(chunks) >= Len(sinks) - 1
        /\ pc = "c_taropen" => Len(chunks) = Len(sinks) - 1

C14_Witness ==
    /\ op = "chunked" /\ pc = "c_taropen"
    /\ Len(sinks) = 2
    /\ sinks[1].closed /\ ~sinks[2].closed
    /\ writers[1].closed /\ Len(chunks) = 1

\* C15: processing an object whose archive name is empty only moves the loop
\* to the next object: no rotation, no chunk opened, no get_object call, and
\* the counters, the chunk index, the records and every handle are unchanged.
AtSkippedObject ==
    /\ pc \in { "c_loop", "s_loop" } /\ idx <= Len(objects)
    /\ ArchiveName(objects[idx].Key, prefix, strip_prefix) = <<>>

C15_SkipChangesNothing ==
    [][AtSkippedObject =>
          /\ idx' = idx + 1 /\ pc' = pc
          /\ UNCHANGED << chunks, chunk_num, current_size, files_in_chunk,
                          current_filename, tar, output_file, body, file_count,
                          exc, result, sinks, writers, bodies, getCalls,
                          listCalls >>]_vars

C15_Witness ==
    /\ op = "chunked" /\ pc = "c_loop"
    /\ idx = 2 /\ Len(objects) >= 2
    /\ strip_prefix /\ StartsWith(objects[1].Key, prefix)
    /\ ArchiveName(objects[1].Key, prefix, strip_prefix) = <<>>
    /\ sinks = <<>> /\ getCalls = <<>>

\* C16: every run of archive_to_files_chunked ends, and one in which nothing
\* fails ends by returning; no object is fetched twice, at most one chunk is
\* opened per fetched object, and at the return every listed object has been
\* passed, every kept one fetched once in order, every chunk closed and recorded.
NoRepeatedGet ==
    \A i, j \in 1 .. Len(getCalls) : getCalls[i] = getCalls[j] => i = j
KeptKeys == [j \in 1 .. Len(ExpectedEntries) |-> ExpectedEntries[j].key]

C16_ChunkedTerminates ==
    /\ <>Ended
    /\ [](Ended /\ exc = "none" => pc = "returned")
    /\ [](NoRepeatedGet /\ Len(writers) <= Len(getCalls) + 1)
    /\ [](ChunkedReturned =>
             /\ idx = Len(objects) + 1
             /\ getCalls = KeptKeys
             /\ OpenWriters = {} /\ OpenSinks = {}
             /\ Len(result) = Len(writers)
             /\ Len(writers) <= Len(ExpectedEntries))

C16_Witness ==
    /\ ChunkedReturned
    /\ Len(objects) = 3 /\ Len(ExpectedEntries) = 2
    /\ ExpectedEntries[1].size > max_size_bytes
    /\ Len(result) = 2

\* C17: at every point of archive_to_files_chunked current_size is the sum of
\* the listed sizes of the entries written to the current chunk and
\* files_in_chunk is their number (both 0 while no chunk was opened and right
\* after a new one is opened).
C17_CountersMatchChunk ==
    op = "chunked" =>
        IF tar = 0
        THEN current_size = 0 /\ files_in_chunk = 0
        ELSE /\ current_size = SumSizes(writers[tar].entries)
             /\ files_in_chunk = Len(writers[tar].entries)

C17_Witness ==
    /\ op = "chunked"
    /\ tar = 2 /\ ~writers[2].closed
    /\ files_in_chunk = 2 /\ current_size = 1
    /\ Len(writers[1].entries) = 1

\* C18: get_object is called at most once per listed object and never for a
\* skipped one; once a get_object call or an entry write has failed, nothing
\* more is fetched or written, no chunk is opened, and the call ends by raising
\* that very error, never by returning.
FetchOrWriteFailed == exc \in { "GetError", "WriteError" }
EntriesWritten == [w \in 1 .. Len(writers) |-> writers[w].entries]

C18_NoRetryErrorPropagates ==
    /\ [](/\ NoRepeatedGet
          /\ \A g \in 1 .. Len(getCalls) :
                ArchiveName(getCalls[g], prefix, strip_prefix) # <<>>)
    /\ [][FetchOrWriteFailed =>
             /\ exc' = exc
             /\ pc' # "returned"
             /\ getCalls' = getCalls
             /\ EntriesWritten' = EntriesWritten
             /\ Len(sinks') = Len(sinks)]_vars

\* C19: for the same bucket, prefix and strip_prefix, stream_to_tar writes
\* the entries that archive_to_files_chunked writes over all its chunks: both
\* are the kept objects of the listing, in order; with a budget no smaller than
\* their total size the chunked path returns at most one chunk, whose count is
\* the number stream_to_tar returns.
InputEntries == EntriesOf(ListObjects(Paginate(bucket, prefix)))

C19_SingleAndChunkedAgree ==
    /\ (op \in { "stream", "file" } /\ pc = "returned") =>
          /\ Len(writers) = 1
          /\ writers[1].entries = InputEntries
          /\ result = Len(InputEntries)
    /\ ChunkedReturned =>
          /\ ConcatChunks(result) = InputEntries
          /\ max_size_bytes >= SumSizes(InputEntries) =>
                /\ Len(result) <= 1
                /\ SumCounts(result) = Len(InputEntries)

C19_Witness ==
    /\ ChunkedReturned
    /\ Len(InputEntries) = 3
    /\ max_size_bytes = SumSizes(InputEntries)
    /\ Len(result) = 1 /\ result[1][2] = 3

\* C20: in stream_to_tar and archive_to_files_chunked at most one object
\* read handle is open at any time, the latest one, and only while the archive
\* writer it is streamed into is still open.
OpenBodies == { b \in 1 .. Len(bodies) : ~bodies[b].closed }

C20_OneBodyOpen ==
    /\ Cardinality(OpenBodies) <= 1
    /\ OpenBodies \subseteq { Len(bodies) }
    /\ OpenBodies # {} => (tar # 0 /\ ~writers[tar].closed)

C20_Witness ==
    /\ op = "chunked"
    /\ Len(bodies) = 2 /\ bodies[1].closed /\ ~bodies[2].closed
    /\ Len(writers) = 2 /\ writers[1].closed

\* C21: archive_to_files_chunked lists once, and completes the listing before
\* it touches any output: until the listing has succeeded there is no output
\* file, no archive writer, no read handle and no get_object call; when the
\* listing fails the call ends at once by raising that error, with nothing
\* created, nothing recorded, no retry and no further step.
ListingFailed == op = "chunked" /\ exc = "ListingError"
NothingTouched ==
    /\ sinks = <<>> /\ writers = <<>> /\ bodies = <<>> /\ getCalls = <<>>
    /\ chunks = <<>> /\ tar = 0 /\ output_file = 0 /\ body = 0

C21_ListingBeforeOutput ==
    /\ [](op = "chunked" =>
             /\ listCalls <= 1
             /\ pc \in { "c_validate", "c_list" } => NothingTouched /\ listCalls = 0
             /\ ~NothingTouched => listCalls = 1 /\ exc # "ListingError"
             /\ ListingFailed => pc = "raised" /\ NothingTouched /\ result = <<>>)
    /\ [][~ListingFailed]_vars

C21_Witness ==
    /\ ListingFailed /\ pc = "raised" /\ listCalls = 1
    /\ Len(ListObjects(Paginate(bucket, prefix))) >= 2
    /\ NothingTouched

====
